---- MODULE Spec2Model ----
(***************************************************************************)
(* A model of the QR Code generator of src/src/qr.cc: the constructor      *)
(* QRCode::QRCode(text, err, msk) as a state machine, one action per       *)
(* statement of the constructor body, and the functions it calls as        *)
(* operators.                                                              *)
(*                                                                         *)
(* Characters are signed 8-bit values (-128..127), as `char` is with g++   *)
(* on x86-64 (src/src/Makefile).  A std::vector indexed from 0 is a        *)
(* function on 0..n-1; a two-dimensional table of the source with a        *)
(* placeholder at index 0 is a tuple indexed from 1 and read through an    *)
(* accessor that adds 1.                                                   *)
(***************************************************************************)
EXTENDS Integers, Sequences, FiniteSets, TLC

VARIABLES
  pc,               \* the statement of the constructor body that runs next
  text,             \* argument text (and plain_text_)
  err,              \* argument err: the requested floor of the ECC level
  passed,           \* the value the caller passed for msk
  msk,              \* the parameter msk (a local, overwritten at line 48)
  mask_,            \* int mask_
  kEncoding_,       \* const Encoding* kEncoding_ (the record it points to)
  version_,         \* int version_
  correctionLevel_, \* ErrCor correctionLevel_
  size_,            \* int size_
  blocks_,          \* vector<vector<bool>> blocks_     (blocks_[y][x])
  funcBlock_,       \* vector<vector<bool>> funcBlock_  (funcBlock_[y][x])
  data_,            \* vector<uint8_t> data_
  rsLog_,           \* vector<uint8_t> rsLog_
  rsExp_,           \* vector<uint8_t> rsExp_
  error,            \* what() of the exception that left the constructor
  call              \* a member function called on its own: arguments and result

vars == <<pc, text, err, passed, msk, mask_, kEncoding_, version_, correctionLevel_,
          size_, blocks_, funcBlock_, data_, rsLog_, rsExp_, error, call>>

-----------------------------------------------------------------------------
(* Bounds of the model *)

\* texts of every length 0..MaxSmallLen are built from every seed
MaxSmallLen == 3
\* a text built at a capacity is up to MaxSlack characters longer than it
MaxSlack == 1
\* a text built for a version is up to MaxShort characters shorter than its capacity
MaxShort == 1
\* the polynomials a remainder is computed from have up to MaxPolyLen coefficients
MaxPolyLen == 2

-----------------------------------------------------------------------------
(* Constants of the program *)

kLow == 0
kMedium == 1
kQuartile == 2
kHigh == 3
ErrCor == kLow..kHigh

\* the last version tried by setVersionAndErrorLevel
MaxVersion == 40

\* the value shown for an int member that no statement has assigned yet (it is
\* never read before it is assigned)
Unassigned == -1

kNumeric_ == [mode |-> 1, bits |-> <<10, 12, 14>>]
kAlpha_ == [mode |-> 2, bits |-> <<9, 11, 13>>]
kByte_ == [mode |-> 4, bits |-> <<8, 16, 16>>]
kEci_ == [mode |-> 7, bits |-> <<0, 0, 0>>]
kKanji_ == [mode |-> 8, bits |-> <<8, 10, 12>>]

\* "0123456789ABCDEFGHIJKLMNOPQRSTUVWXYZ $%*+-./:" as character codes
kAlphanumericChar_ ==
  <<48, 49, 50, 51, 52, 53, 54, 55, 56, 57,
    65, 66, 67, 68, 69, 70, 71, 72, 73, 74, 75, 76, 77,
    78, 79, 80, 81, 82, 83, 84, 85, 86, 87, 88, 89, 90,
    32, 36, 37, 42, 43, 45, 46, 47, 58>>

kEC_codewords_per_block_ ==
  << <<-1,  7, 10, 15, 20, 26, 18, 20, 24, 30, 18, 20, 24, 26, 30, 22, 24, 28, 30, 28, 28, 28, 28, 30, 30, 26, 28, 30, 30, 30, 30, 30, 30, 30, 30, 30, 30, 30, 30, 30, 30>>,
     <<-1, 10, 16, 26, 18, 24, 16, 18, 22, 22, 26, 30, 22, 22, 24, 24, 28, 28, 26, 26, 26, 26, 28, 28, 28, 28, 28, 28, 28, 28, 28, 28, 28, 28, 28, 28, 28, 28, 28, 28, 28>>,
     <<-1, 13, 22, 18, 26, 18, 24, 18, 22, 20, 24, 28, 26, 24, 20, 30, 24, 28, 28, 26, 30, 28, 30, 30, 30, 30, 28, 30, 30, 30, 30, 30, 30, 30, 30, 30, 30, 30, 30, 30, 30>>,
     <<-1, 17, 28, 22, 16, 22, 28, 26, 26, 24, 28, 24, 28, 22, 24, 24, 30, 28, 28, 26, 28, 30, 24, 30, 30, 30, 30, 30, 30, 30, 30, 30, 30, 30, 30, 30, 30, 30, 30, 30, 30>> >>

kErr_corr_blocks_ ==
  << <<-1, 1, 1, 1, 1, 1, 2, 2, 2, 2,  4,  4,  4,  4,  4,  6,  6,  6,  6,  7,  8,  8,  9,  9, 10, 12, 12, 12, 13, 14, 15, 16, 17, 18, 19, 19, 20, 21, 22, 24, 25>>,
     <<-1, 1, 1, 1, 2, 2, 4, 4, 4, 5,  5,  5,  8,  9,  9, 10, 10, 11, 13, 14, 16, 17, 17, 18, 20, 21, 23, 25, 26, 28, 29, 31, 33, 35, 37, 38, 40, 43, 45, 47, 49>>,
     <<-1, 1, 1, 2, 2, 4, 4, 6, 6, 8,  8,  8, 10, 12, 16, 12, 17, 16, 18, 21, 20, 23, 23, 25, 27, 29, 34, 34, 35, 38, 40, 43, 45, 48, 51, 53, 56, 59, 62, 65, 68>>,
     <<-1, 1, 1, 2, 4, 4, 4, 5, 6, 8,  8, 11, 11, 16, 16, 18, 16, 19, 21, 25, 25, 25, 34, 30, 32, 35, 37, 40, 42, 45, 48, 51, 54, 57, 60, 63, 66, 70, 74, 77, 81>> >>

\* kEC_codewords_per_block_[level][version] and kErr_corr_blocks_[level][version]
ECCodewordsPerBlock(level, version) == kEC_codewords_per_block_[level + 1][version + 1]
ErrCorrBlocks(level, version) == kErr_corr_blocks_[level + 1][version + 1]

-----------------------------------------------------------------------------
(* Integer helpers *)

Min(a, b) == IF a < b THEN a ELSE b
Max(a, b) == IF a > b THEN a ELSE b
Abs(a) == IF a < 0 THEN -a ELSE a

\* TRUE, once v has been evaluated.  TLC evaluates a definition where it is
\* first used, and a function [x \in S |-> e] entry by entry, again at every
\* use; a value that is read many times, or that a loop hands from one pass to
\* the next, is named here first so that it is computed once, in program order.
Evaluated(v) == v = v

-----------------------------------------------------------------------------
(* Encoding *)

\* Encoding::getBitsPerChar; -1 stands for throw std::logic_error("Invalid version")
getBitsPerChar(enc, ver) ==
  IF ver > 0 /\ ver < 10 THEN enc.bits[1]
  ELSE IF ver > 9 /\ ver < 27 THEN enc.bits[2]
  ELSE IF ver > 26 /\ ver < 41 THEN enc.bits[3]
  ELSE -1

-----------------------------------------------------------------------------
(* Classification *)

isNumeric(t) == \A i \in 1..Len(t) : ~(t[i] < 48 \/ t[i] > 57)

\* kAlphanumericChar_.find(ch): the index of ch, -1 for std::string::npos
AlphanumericFind(ch) ==
  IF \E k \in 1..Len(kAlphanumericChar_) : kAlphanumericChar_[k] = ch
  THEN (CHOOSE k \in 1..Len(kAlphanumericChar_) : kAlphanumericChar_[k] = ch) - 1
  ELSE -1

isAlphanumeric(t) == \A i \in 1..Len(t) : AlphanumericFind(t[i]) # -1

isByte(t) == \A i \in 1..Len(t) : ~(t[i] < 32 \/ t[i] > 126)

isKanji(t) == FALSE

\* kEncoding_ before any assignment: a pointer of indeterminate value
NoEncoding == [mode |-> Unassigned, bits |-> <<0, 0, 0>>]

\* determineEncoding with the test of isByte ahead of the test of isAlphanumeric
determineEncodingByteFirst(t) ==
  IF isNumeric(t) THEN kNumeric_
  ELSE IF isByte(t) THEN kByte_
  ELSE IF isAlphanumeric(t) THEN kAlpha_
  ELSE IF isKanji(t) THEN kKanji_
  ELSE NoEncoding

\* the record kEncoding_ points to after determineEncoding: no branch assigns
\* the pointer when the text is of no class, and it stays as it was
determineEncoding(t) ==
  IF isNumeric(t) THEN kNumeric_
  ELSE IF isAlphanumeric(t) THEN kAlpha_
  ELSE IF isByte(t) THEN kByte_
  ELSE IF isKanji(t) THEN kKanji_
  ELSE NoEncoding

\* What dereferencing the indeterminate kEncoding_ can give (undefined
\* behaviour): any of the program's Encoding records, a record of some other
\* mode, or no record at all (the access faults).
InvalidEncoding == [mode |-> 0, bits |-> <<0, 0, 0>>]
IndeterminateEncodings ==
  {kNumeric_, kAlpha_, kByte_, kEci_, kKanji_, InvalidEncoding, NoEncoding}

-----------------------------------------------------------------------------
(* Capacity *)

getTotalModules(version) ==
  IF version = 1 THEN 21 * 21 - 3 * 8 * 8 - 2 * 15 - 1 - 2 * 5
  ELSE LET alignBlocks == (version \div 7) + 2
       IN (version * 4 + 17) * (version * 4 + 17) - 3 * 8 * 8
          - (alignBlocks * alignBlocks - 3) * 5 * 5 - 2 * (version * 4 + 1)
          + (alignBlocks - 2) * 5 * 2 - 2 * 15 - 1
          - (IF version > 6 THEN 2 * 3 * 6 ELSE 0)

getTotalCodewords(version, error_level) ==
  (getTotalModules(version) \div 8)
    - ErrCorrBlocks(error_level, version) * ECCodewordsPerBlock(error_level, version)

\* numericCapacity without the digits of a last, shorter group
numericCapacityWholeGroups(bits) == (bits \div 10) * 3

\* numericCapacity with the last group rounded up to three digits
numericCapacityRoundedUp(bits) == ((bits + 9) \div 10) * 3

numericCapacity(bits) ==
  (bits \div 10) * 3 + (IF bits % 10 > 6 THEN 2 ELSE IF bits % 10 > 3 THEN 1 ELSE 0)

alphanumbericCapacity(bits) ==
  (bits \div 11) * 2 + (IF bits % 11 > 5 THEN 1 ELSE 0)

byteCapacity(bits) == bits \div 8

kanjiCapacity(bits) == bits \div 13

\* getCapacity with kEncoding_ = enc, for a mode of the switch
getCapacity(enc, version, error_level) ==
  LET data_codewords == getTotalCodewords(version, error_level)
      bits_per_char == getBitsPerChar(enc, version)
      available_bits == data_codewords * 8 - bits_per_char - 4
  IN CASE enc.mode = 1 -> numericCapacity(available_bits)
       [] enc.mode = 2 -> alphanumbericCapacity(available_bits)
       [] enc.mode = 4 -> byteCapacity(available_bits)
       [] enc.mode = 7 -> byteCapacity(available_bits)
       [] enc.mode = 8 -> kanjiCapacity(available_bits)

\* the default branch of the switch of getCapacity: throw
getCapacityThrows(enc) == enc.mode \notin {1, 2, 4, 7, 8}

-----------------------------------------------------------------------------
(* Version and level selection *)

\* The inner loop with its scan turned round: the lowest level that fits.
ScanLevelsLowestFirst(enc, length, min_err_cor, i, j) ==
  IF \E l \in min_err_cor..j : getCapacity(enc, i, l) >= length
  THEN CHOOSE l \in min_err_cor..j :
         /\ getCapacity(enc, i, l) >= length
         /\ \A k \in min_err_cor..(l - 1) : getCapacity(enc, i, k) < length
  ELSE min_err_cor - 1

\* The inner loop with its two bounds exchanged: for (j = min_err_cor; j >= kHigh; --j)
ScanLevelsBoundsExchanged(enc, length, min_err_cor, i, j) ==
  IF min_err_cor >= j /\ getCapacity(enc, i, min_err_cor) >= length
  THEN min_err_cor
  ELSE min_err_cor - 1

\* The inner loop of setVersionAndErrorLevel for version i, from level j down:
\* the level that returns, min_err_cor - 1 when the loop ends without one.
RECURSIVE ScanLevels(_, _, _, _, _)
ScanLevels(enc, length, min_err_cor, i, j) ==
  IF j < min_err_cor THEN min_err_cor - 1
  ELSE IF getCapacity(enc, i, j) >= length THEN j
  ELSE ScanLevels(enc, length, min_err_cor, i, j - 1)

\* The outer loop of setVersionAndErrorLevel from version i on; the result
\* names the exception thrown, or "" and the members assigned.
RECURSIVE ScanVersions(_, _, _, _)
ScanVersions(enc, length, min_err_cor, i) ==
  IF i > MaxVersion
  THEN [error |-> "String too long!", version |-> Unassigned, level |-> min_err_cor]
  ELSE IF getCapacityThrows(enc)
  THEN [error |-> "Invalid encoding mode.", version |-> Unassigned, level |-> min_err_cor]
  ELSE LET j == ScanLevels(enc, length, min_err_cor, i, kHigh)
       IN IF j >= min_err_cor
          THEN [error |-> "", version |-> i, level |-> j]
          ELSE ScanVersions(enc, length, min_err_cor, i + 1)

setVersionAndErrorLevel(enc, length, min_err_cor) ==
  ScanVersions(enc, length, min_err_cor, 1)

-----------------------------------------------------------------------------
(* Bit operations on non-negative ints *)

RECURSIVE BitXor(_, _)
BitXor(a, b) ==
  IF a = 0 THEN b
  ELSE IF b = 0 THEN a
  ELSE ((a + b) % 2) + 2 * BitXor(a \div 2, b \div 2)

RECURSIVE BitOr(_, _)
BitOr(a, b) ==
  IF a = 0 THEN b
  ELSE IF b = 0 THEN a
  ELSE (IF a % 2 = 1 \/ b % 2 = 1 THEN 1 ELSE 0) + 2 * BitOr(a \div 2, b \div 2)

\* ((v >> i) & 1) != 0
BitSet(v, i) == (v \div (2 ^ i)) % 2 = 1

-----------------------------------------------------------------------------
(* Function patterns *)

\* determineAlignmentPos with a step that is not made even
determineAlignmentPosAnyStep(version) ==
  IF version = 1 THEN << >>
  ELSE LET intervals == version \div 7 + 1
           distance == 4 * version + 4
           step == distance \div intervals
       IN <<6>> \o [i \in 1..intervals |-> distance + 6 - (intervals - 1 - (i - 1)) * step]

\* determineAlignmentPos: the tracks, as a tuple.  distance / intervals / 2 is
\* a division of ints, so std::ceil is applied to a whole number
determineAlignmentPos(version) ==
  IF version = 1 THEN << >>
  ELSE LET intervals == version \div 7 + 1
           distance == 4 * version + 4
           step == ((distance \div intervals) \div 2) * 2
       IN <<6>> \o [i \in 1..intervals |-> distance + 6 - (intervals - 1 - (i - 1)) * step]

\* the levels numbered in their order of declaration
formatBitsInOrder(errorCorrectionLevel) == errorCorrectionLevel

formatBits(errorCorrectionLevel) ==
  CASE errorCorrectionLevel = kLow -> 1
    [] errorCorrectionLevel = kMedium -> 0
    [] errorCorrectionLevel = kQuartile -> 3
    [] errorCorrectionLevel = kHigh -> 2

\* the loop of drawFormat: n more rounds of
\* remainder = (remainder << 1) ^ ((remainder >> 9) * 0x537)
RECURSIVE FormatRemainder(_, _)
FormatRemainder(remainder, n) ==
  IF n = 0 THEN remainder
  ELSE FormatRemainder(BitXor(remainder * 2, (remainder \div 512) * 1335), n - 1)

\* the local `bits` of drawFormat(mask) at level
FormatWord(level, mask) ==
  LET data == BitOr(formatBits(level) * 8, mask)
      remainder == FormatRemainder(data, 10)
  IN BitXor(BitOr(data * 1024, remainder), 21522)

\* the loop of drawVersion: n more rounds of
\* remainder = (remainder << 1) ^ ((remainder >> 11) * 0x1F25)
RECURSIVE VersionRemainder(_, _)
VersionRemainder(remainder, n) ==
  IF n = 0 THEN remainder
  ELSE VersionRemainder(BitXor(remainder * 2, (remainder \div 2048) * 7973), n - 1)

\* the local `version_bits` of drawVersion
VersionWord(version) == BitOr(version * 4096, VersionRemainder(version, 12))

\* a pattern drawn at every pair of tracks, the three finder corners included
AlignmentPairsEvery(tracks) == (1..Len(tracks)) \X (1..Len(tracks))

\* the pairs (i, j) of drawAlignmentBlocks that draw a pattern, as indices 1..n
\* into the tracks
AlignmentPairs(tracks) ==
  LET n == Len(tracks)
  IN {p \in (1..n) \X (1..n) :
        ~((p[1] = 1 /\ p[2] = 1) \/ (p[1] = 1 /\ p[2] = n) \/ (p[1] = n /\ p[2] = 1))}

\* every (x, y) that drawPatterns passes to setFuncBlocks
PatternWrites(size, version, tracks) ==
  {<<i, 6>> : i \in 0..(size - 1)} \cup {<<6, i>> : i \in 0..(size - 1)}
  \cup {c \in UNION {((cx - 4)..(cx + 4)) \X ((cy - 4)..(cy + 4)) :
                       <<cx, cy>> \in {<<3, 3>>, <<size - 4, 3>>, <<3, size - 4>>}} :
          0 <= c[1] /\ c[1] < size /\ 0 <= c[2] /\ c[2] < size}
  \cup UNION {((tracks[p[1]] - 2)..(tracks[p[1]] + 2)) \X ((tracks[p[2]] - 2)..(tracks[p[2]] + 2)) :
                p \in AlignmentPairs(tracks)}
  \cup {<<8, i>> : i \in (0..8) \ {6}} \cup {<<7, 8>>}
  \cup {<<14 - i, 8>> : i \in 9..14}
  \cup {<<size - 1 - i, 8>> : i \in 0..7}
  \cup {<<8, size - 15 + i>> : i \in 8..14}
  \cup {<<8, size - 8>>}
  \cup (IF version < 7 THEN {}
        ELSE {<<size - 11 + (i % 3), i \div 3>> : i \in 0..17}
             \cup {<<i \div 3, size - 11 + (i % 3)>> : i \in 0..17})

\* setFuncBlocks reaches the vectors through at(): a write outside the grid
\* throws std::out_of_range
PatternsOutOfRange(size, version, tracks) ==
  \E c \in PatternWrites(size, version, tracks) :
    ~(0 <= c[1] /\ c[1] < size /\ 0 <= c[2] /\ c[2] < size)

\* The last write of drawPatterns to cell (x, y): <<written, value>>.  The
\* writers are examined from the last one (drawVersion) back to the first (the
\* timing loop), so that a later write overrides an earlier one as in the code.
PatternCell(size, version, tracks, bits, version_bits, x, y) ==
  LET coverX == {i \in 1..Len(tracks) : Abs(x - tracks[i]) <= 2}
      coverY == {j \in 1..Len(tracks) : Abs(y - tracks[j]) <= 2}
      cover == (coverX \X coverY) \cap AlignmentPairs(tracks)
      last == CHOOSE p \in cover :
                \A q \in cover : q[1] < p[1] \/ (q[1] = p[1] /\ q[2] <= p[2])
      finder(cx, cy) == Abs(x - cx) <= 4 /\ Abs(y - cy) <= 4
      finderDark(cx, cy) ==
        LET distance == Max(Abs(x - cx), Abs(y - cy))
        IN distance # 2 /\ distance # 4
  IN
  \* drawVersion
  IF version >= 7 /\ x - (size - 11) \in 0..2 /\ y \in 0..5
  THEN <<TRUE, BitSet(version_bits, 3 * y + (x - (size - 11)))>>
  ELSE IF version >= 7 /\ x \in 0..5 /\ y - (size - 11) \in 0..2
  THEN <<TRUE, BitSet(version_bits, 3 * x + (y - (size - 11)))>>
  \* drawFormat
  ELSE IF x = 8 /\ y = size - 8
  THEN <<TRUE, TRUE>>
  ELSE IF x = 8 /\ y - (size - 15) \in 8..14
  THEN <<TRUE, BitSet(bits, y - (size - 15))>>
  ELSE IF y = 8 /\ size - 1 - x \in 0..7
  THEN <<TRUE, BitSet(bits, size - 1 - x)>>
  ELSE IF y = 8 /\ 14 - x \in 9..14
  THEN <<TRUE, BitSet(bits, 14 - x)>>
  ELSE IF x = 7 /\ y = 8
  THEN <<TRUE, BitSet(bits, 8)>>
  ELSE IF x = 8 /\ y \in 7..8
  THEN <<TRUE, BitSet(bits, y - 1)>>
  ELSE IF x = 8 /\ y \in 0..5
  THEN <<TRUE, BitSet(bits, y)>>
  \* drawAlignmentBlocks
  ELSE IF cover # {}
  THEN <<TRUE, Max(Abs(x - tracks[last[1]]), Abs(y - tracks[last[2]])) # 1>>
  \* setFinderBlocks, the third, the second and the first call
  ELSE IF finder(3, size - 4) THEN <<TRUE, finderDark(3, size - 4)>>
  ELSE IF finder(size - 4, 3) THEN <<TRUE, finderDark(size - 4, 3)>>
  ELSE IF finder(3, 3) THEN <<TRUE, finderDark(3, 3)>>
  \* the timing loop
  ELSE IF y = 6 THEN <<TRUE, x % 2 = 0>>
  ELSE IF x = 6 THEN <<TRUE, y % 2 = 0>>
  ELSE <<FALSE, FALSE>>

\* drawPatterns: the exception it throws, or "" and the two grids it leaves
drawPatterns(blocks, func, size, version, level, mask) ==
  LET tracks == determineAlignmentPos(version)
      bits == FormatWord(level, mask)
      version_bits == VersionWord(version)
      cell == [y \in 0..(size - 1) |-> [x \in 0..(size - 1) |->
                 PatternCell(size, version, tracks, bits, version_bits, x, y)]]
  IN IF Evaluated(cell) /\ PatternsOutOfRange(size, version, tracks)
     THEN [error |-> "out_of_range", blocks |-> blocks, func |-> func]
     ELSE [error |-> "",
           blocks |-> [y \in 0..(size - 1) |-> [x \in 0..(size - 1) |->
                         IF cell[y][x][1] THEN cell[y][x][2] ELSE blocks[y][x]]],
           func |-> [y \in 0..(size - 1) |-> [x \in 0..(size - 1) |->
                       cell[y][x][1] \/ func[y][x]]]]

-----------------------------------------------------------------------------
(* Bit buffer and segment encoder *)

\* The guard of BitBuffer::appendBits(val, len): throw std::logic_error("Out of
\* range").  val is the int the caller converts to std::uint32_t: a negative
\* one converts to 2^32 + val >= 2^31, which no shift by len <= 31 makes 0, and
\* a non-negative one is below 2^31.
appendBitsThrows(val, len) ==
  len < 0 \/ len > 31 \/ val < 0 \/ (len < 31 /\ val \div (2 ^ len) # 0)

\* bit k (0 = first pushed) of what appendBits(val, len) pushes
appendedBit(val, len, k) == BitSet(val, len - 1 - k)

\* `group` after the loop body of encodeText has run for the count characters
\* t[first], ..., starting from group = 0: group = group * base + digit(ch)
\* (Numeric: base 10, digit ch - '0'; Alphanumeric: base 45, digit find(ch))
RECURSIVE GroupValue(_, _, _, _)
GroupValue(t, first, count, mode) ==
  IF count = 0 THEN 0
  ELSE IF mode = 1
  THEN GroupValue(t, first, count - 1, mode) * 10 + (t[first + count - 1] - 48)
  ELSE GroupValue(t, first, count - 1, mode) * 45 + AlphanumericFind(t[first + count - 1])

\* a tail as wide as a full group of three digits
NumericTailBitsFullGroup(max) == 10

\* The width of the appendBits call for the max = 1 or 2 digits left over after
\* the full groups of a Numeric text: max * 3 + 1.
NumericTailBits(max) == max * 3 + 1

\* The appendBits calls of the data loop of encodeText, in order, each a pair
\* <<val, len>>: one call per full group of per characters, then one for the
\* characters left over.
DataCalls(t, mode) ==
  LET per == CASE mode = 1 -> 3 [] mode = 2 -> 2 [] mode = 4 -> 1 [] OTHER -> 1
      n == IF mode \in {1, 2, 4} THEN Len(t) ELSE 0
      full == n \div per
      max == n % per
      value(first, count) ==
        IF mode \in {1, 2} THEN GroupValue(t, first, count, mode) ELSE t[first]
      width == CASE mode = 1 -> 10 [] mode = 2 -> 11 [] OTHER -> 8
      tail == IF mode = 1 THEN NumericTailBits(max) ELSE 6
  IN [k \in 1..(full + (IF max > 0 THEN 1 ELSE 0)) |->
        IF k <= full THEN <<value(per * (k - 1) + 1, per), width>>
        ELSE <<value(per * full + 1, max), tail>>]

\* the throw inside the Numeric loop
NumericThrows(t, mode) == mode = 1 /\ \E i \in 1..Len(t) : t[i] < 48 \/ t[i] > 57

\* a terminator of four bits whatever room is left
TerminatorLengthAlwaysFour(capacity, used) == 4

\* The length of the terminator: std::min(4, capacity - buffer.size()) as an
\* int.  The difference is taken in std::size_t and converted, which gives the
\* signed difference for every pair of sizes a symbol can have.
TerminatorLength(capacity, used) == Min(4, capacity - used)

\* Every appendBits call of encodeText up to the padding loop, as <<val, len>>;
\* the data calls all have the same length but the last, so their total length
\* is computed from the first and the last.
EncodeCalls(t, enc, version, level) ==
  LET header == << <<enc.mode, 4>>, <<Len(t), getBitsPerChar(enc, version)>> >>
      data == DataCalls(t, enc.mode)
      used == 4 + header[2][2]
              + (IF Len(data) = 0 THEN 0
                 ELSE (Len(data) - 1) * data[1][2] + data[Len(data)][2])
      capacity == getTotalCodewords(version, level) * 8
      terminator == TerminatorLength(capacity, used)
      aligned == used + terminator
  IN [header |-> header, data |-> data, used |-> used, capacity |-> capacity,
      terminator |-> <<0, terminator>>,
      align |-> <<0, (8 - (aligned % 8)) % 8>>,
      padded |-> aligned + ((8 - (aligned % 8)) % 8)]

\* the exception that leaves encodeText, "" when none does
encodeTextError(t, enc, version, level) ==
  LET c == EncodeCalls(t, enc, version, level)
  IN IF appendBitsThrows(c.header[1][1], c.header[1][2]) THEN "Out of range"
     ELSE IF getBitsPerChar(enc, version) = -1 THEN "Invalid version"
     ELSE IF appendBitsThrows(c.header[2][1], c.header[2][2]) THEN "Out of range"
     ELSE IF NumericThrows(t, enc.mode)
     THEN "Numeric: Contains non numeric characters!"
     ELSE IF \E k \in 1..Len(c.data) : appendBitsThrows(c.data[k][1], c.data[k][2])
     THEN "Out of range"
     ELSE IF appendBitsThrows(c.terminator[1], c.terminator[2]) THEN "Out of range"
     ELSE IF appendBitsThrows(c.align[1], c.align[2]) THEN "Out of range"
     ELSE ""

\* the bit buffer of encodeText once the padding loop has ended, as a function
\* on 0..n-1 (when no call throws)
encodeTextBuffer(t, enc, version, level) ==
  LET c == EncodeCalls(t, enc, version, level)
      h1 == 4
      h2 == h1 + c.header[2][2]
      width == IF Len(c.data) = 0 THEN 1 ELSE c.data[1][2]
      size == IF c.padded < c.capacity
              THEN c.padded + 8 * (((c.capacity - c.padded) + 7) \div 8)
              ELSE c.padded
  IN [i \in 0..(size - 1) |->
        IF i < h1 THEN appendedBit(c.header[1][1], 4, i)
        ELSE IF i < h2 THEN appendedBit(c.header[2][1], c.header[2][2], i - h1)
        ELSE IF i < c.used
        THEN LET k == ((i - h2) \div width) + 1
             IN appendedBit(c.data[k][1], c.data[k][2], (i - h2) % width)
        ELSE IF i < c.padded THEN FALSE
        \* byte = 0xEC, then byte ^= 0xEC ^ 0x11 after every append
        ELSE appendedBit(IF ((i - c.padded) \div 8) % 2 = 0 THEN 236 ELSE 17,
                         8, (i - c.padded) % 8)]

\* the codewords packed from the bit buffer: codewords(buffer.size() / 8), then
\* codewords.at(i >> 3) |= bit << (7 - (i & 7)) for every bit
PackCodewords(buffer) ==
  LET n == Cardinality(DOMAIN buffer)
  IN [b \in 1..(n \div 8) |->
        LET bit(j) == IF buffer[8 * (b - 1) + j] THEN 2 ^ (7 - j) ELSE 0
        IN bit(0) + bit(1) + bit(2) + bit(3) + bit(4) + bit(5) + bit(6) + bit(7)]

encodeText(t, enc, version, level) ==
  PackCodewords(encodeTextBuffer(t, enc, version, level))

-----------------------------------------------------------------------------
(* Reed-Solomon arithmetic *)

\* x ^ y of two uint8_t, tabulated
ByteXor == [a \in 0..255 |-> [b \in 0..255 |-> BitXor(a, b)]]

\* One pass of the body of the loop of rsGenerateLogExp; s = [val, log, exp]
\* holds the local val and the two tables.
LogExpStep(exp, s) ==
  LET v == IF s.val > 127 THEN BitXor(s.val * 2, 285) ELSE s.val * 2
  IN [val |-> v,
      log |-> [s.log EXCEPT ![v] = exp % 255],
      exp |-> [s.exp EXCEPT ![exp % 255] = v]]

\* The passes exp = from, ..., to - 1 of that loop in order, the run cut in two
\* halves so that the evaluation does not nest one level per pass.
RECURSIVE GenerateLogExp(_, _, _)
GenerateLogExp(from, to, s) ==
  IF from >= to THEN s
  ELSE IF to = from + 1 THEN LogExpStep(from, s)
  ELSE LET mid == (from + to) \div 2
           first == GenerateLogExp(from, mid, s)
       IN IF Evaluated(first) THEN GenerateLogExp(mid, to, first) ELSE s

\* rsLog_ and rsExp_ after rsGenerateLogExp, from the tables log and exp
rsGenerateLogExp(log, exp) ==
  LET s == GenerateLogExp(1, 256, [val |-> 1, log |-> log, exp |-> exp])
  IN [log |-> s.log, exp |-> [s.exp EXCEPT ![255] = 1]]

reedSolomonMult(t, x, y) ==
  IF x # 0 /\ y # 0 THEN t.exp[(t.log[x] + t.log[y]) % 255] ELSE 0

reedSolomonDiv(t, x, y) == t.exp[(t.log[x] + t.log[y]) % 255]

\* the inner loop of reedSolomonPolyMult for coefficient index (from 0), over
\* the p1index of 0..index that pass the range test, from `from` on
RECURSIVE PolyMultCoeff(_, _, _, _, _, _)
PolyMultCoeff(t, poly1, poly2, index, from, to) ==
  IF from > to THEN 0
  ELSE ByteXor[reedSolomonMult(t, poly1[from + 1], poly2[index - from + 1])]
              [PolyMultCoeff(t, poly1, poly2, index, from + 1, to)]

\* polynomials are tuples, the coefficient of the highest power first
reedSolomonPolyMult(t, poly1, poly2) ==
  [k \in 1..(Len(poly1) + Len(poly2) - 1) |->
     PolyMultCoeff(t, poly1, poly2, k - 1,
                   Max(0, (k - 1) - (Len(poly2) - 1)), Min(k - 1, Len(poly1) - 1))]

\* One pass of the body of the loop of reedSolomonPolyDiv: subtr is product
\* copied over zeros, remainder ^= subtr, then the first term is erased.
PolyDivStep(t, remainder, divisor) ==
  IF remainder[1] # 0
  THEN LET factor == reedSolomonDiv(t, remainder[1], divisor[1])
           product == reedSolomonPolyMult(t, divisor, <<factor>>)
       IN [i \in 1..(Len(remainder) - 1) |->
             IF i + 1 <= Len(product)
             THEN ByteXor[remainder[i + 1]][product[i + 1]]
             ELSE remainder[i + 1]]
  ELSE Tail(remainder)

\* count passes of that loop in order, the run cut in two halves so that the
\* evaluation does not nest one level per pass
RECURSIVE PolyDivLoop(_, _, _, _)
PolyDivLoop(t, remainder, divisor, count) ==
  IF count <= 0 THEN remainder
  ELSE IF count = 1 THEN PolyDivStep(t, remainder, divisor)
  ELSE LET first == PolyDivLoop(t, remainder, divisor, count \div 2)
       IN IF Evaluated(first)
          THEN PolyDivLoop(t, first, divisor, count - (count \div 2))
          ELSE remainder

reedSolomonPolyDiv(t, dividend, divisor) ==
  PolyDivLoop(t, dividend, divisor, Len(dividend) - Len(divisor) + 1)

\* the factors taken as { rsExp_.at(i), 1 }: the product is no longer monic
RECURSIVE GeneratePolyLoopFactorReversed(_, _, _, _)
GeneratePolyLoopFactorReversed(t, lastPoly, i, degree) ==
  IF ~(i < degree) THEN lastPoly
  ELSE LET next == reedSolomonPolyMult(t, lastPoly, <<t.exp[i], 1>>)
       IN IF Evaluated(next)
          THEN GeneratePolyLoopFactorReversed(t, next, i + 1, degree)
          ELSE lastPoly

\* lastPoly after the passes i, ..., degree - 1 of the loop of rsGeneratePoly
RECURSIVE GeneratePolyLoop(_, _, _, _)
GeneratePolyLoop(t, lastPoly, i, degree) ==
  IF ~(i < degree) THEN lastPoly
  ELSE LET next == reedSolomonPolyMult(t, lastPoly, <<1, t.exp[i]>>)
       IN IF Evaluated(next) THEN GeneratePolyLoop(t, next, i + 1, degree) ELSE lastPoly

rsGeneratePoly(t, degree) == GeneratePolyLoop(t, <<1>>, 0, degree)

\* generateEDC(data, codewords); generators[d] is rsGeneratePoly(d), built once
\* by the caller for the degrees it meets
generateEDC(t, data, codewords, generators) ==
  LET degree == codewords - Len(data)
      messagePoly == [i \in 1..codewords |-> IF i <= Len(data) THEN data[i] ELSE 0]
  IN reedSolomonPolyDiv(t, messagePoly, generators[degree])

-----------------------------------------------------------------------------
(* Block split and interleave *)

\* the locals of addEDCInterleave
BlockGeometry(version, level) ==
  LET num_blocks == ErrCorrBlocks(level, version)
      ECC_per_block == ECCodewordsPerBlock(level, version)
      total_codewords == getTotalModules(version) \div 8
  IN [num_blocks |-> num_blocks,
      ECC_per_block |-> ECC_per_block,
      total_codewords |-> total_codewords,
      num_short_blocks |-> num_blocks - (total_codewords % num_blocks),
      short_block_len |-> total_codewords \div num_blocks]

\* the long blocks cut first, the short ones last
BlockDataLenLongFirst(g, i) ==
  g.short_block_len - g.ECC_per_block
    + (IF i < g.num_blocks - g.num_short_blocks THEN 1 ELSE 0)

\* the number of data codewords copied into block i (from 0)
BlockDataLen(g, i) ==
  g.short_block_len - g.ECC_per_block + (IF i < g.num_short_blocks THEN 0 ELSE 1)

\* j advanced by the length of a short block whatever the block
BlockStartAllShort(g, i) == i * (g.short_block_len - g.ECC_per_block)

\* j when block i is cut: the data codewords taken by the blocks before it
BlockStart(g, i) ==
  IF i <= g.num_short_blocks
  THEN i * (g.short_block_len - g.ECC_per_block)
  ELSE i * (g.short_block_len - g.ECC_per_block) + (i - g.num_short_blocks)

\* a block is cut from iterators into data: one past the end, or an end before
\* its begin, is undefined behaviour
SplitOutOfData(g, data) ==
  \E i \in 0..(g.num_blocks - 1) :
    BlockDataLen(g, i) < 0 \/ BlockStart(g, i) + BlockDataLen(g, i) > Len(data)

\* split_blocks: per block its data, the 0 that pads a short block, its EDC
SplitBlocks(t, g, data) ==
  LET generator == rsGeneratePoly(t, g.ECC_per_block)
      generators == [d \in {g.ECC_per_block} |-> generator]
  IN [b \in 1..g.num_blocks |->
        LET i == b - 1
            block == SubSeq(data, BlockStart(g, i) + 1, BlockStart(g, i) + BlockDataLen(g, i))
            edc == generateEDC(t, block,
                     g.short_block_len + (IF i < g.num_short_blocks THEN 0 ELSE 1),
                     generators)
        IN (IF i < g.num_short_blocks THEN Append(block, 0) ELSE block) \o edc]

\* every byte of every block emitted, the 0 that pads a short block included
InterleaveKeepingPad(g, split_blocks) ==
  LET blocks == Len(split_blocks)
  IN [k \in 1..(Len(split_blocks[1]) * blocks) |->
        split_blocks[((k - 1) % blocks) + 1][((k - 1) \div blocks) + 1]]

\* the interleaving loop over split_blocks: column i, then block j; -1 marks
\* the bytes the loop leaves out
Interleave(g, split_blocks) ==
  LET columns == Len(split_blocks[1])
      blocks == Len(split_blocks)
      all == [k \in 1..(columns * blocks) |->
                LET i == (k - 1) \div blocks
                    j == (k - 1) % blocks
                IN IF i # g.short_block_len - g.ECC_per_block \/ j >= g.num_short_blocks
                   THEN split_blocks[j + 1][i + 1]
                   ELSE -1]
  IN SelectSeq(all, LAMBDA v : v # -1)

\* at() on a block shorter than block 0 throws std::out_of_range
InterleaveOutOfRange(split_blocks) ==
  \E j \in 1..Len(split_blocks) : Len(split_blocks[j]) < Len(split_blocks[1])

\* addEDCInterleave(data): the tables it leaves in rsLog_ and rsExp_, and the
\* exception (how = "thrown") or the undefined behaviour (how = "fault") that
\* ends it, or "" and the stream it returns
addEDCInterleave(log, exp, version, level, data) ==
  LET t == rsGenerateLogExp(log, exp)
      g == BlockGeometry(version, level)
      split_blocks == SplitBlocks(t, g, data)
  IN IF SplitOutOfData(g, data)
     THEN [log |-> t.log, exp |-> t.exp, how |-> "fault",
           error |-> "block cut past the end of data", data |-> data]
     ELSE IF Evaluated(split_blocks) /\ InterleaveOutOfRange(split_blocks)
     THEN [log |-> t.log, exp |-> t.exp, how |-> "thrown",
           error |-> "out_of_range", data |-> data]
     ELSE [log |-> t.log, exp |-> t.exp, how |-> "", error |-> "",
           data |-> Interleave(g, split_blocks)]

-----------------------------------------------------------------------------
(* Codeword placement and mask *)

\* The values `right` has in the body of the outer loop of drawCodewords, in
\* order: size - 1, size - 3, ... down to 8, then 5 (for 6), 3, 1.  size is odd.
RightColumns(size) ==
  [k \in 1..((size - 1) \div 2) |->
     LET right == size - 1 - 2 * (k - 1)
     IN IF right > 6 THEN right ELSE right - 1]

\* the first column pair walked downward from the top row
VisitedCellDownFirst(size, right, n) ==
  LET vert == n \div 2
      j == n % 2
      up == ((right + 1) \div 2) % 2 = 1
  IN [x |-> right - j, y |-> IF up THEN size - 1 - vert ELSE vert]

\* the cell visited at step n (from 0) of the two inner loops for `right`
VisitedCell(size, right, n) ==
  LET vert == n \div 2
      j == n % 2
      up == ((right + 1) \div 2) % 2 = 0
  IN [x |-> right - j, y |-> IF up THEN size - 1 - vert ELSE vert]

\* the running sums of the tuple of numbers c: <<c[1], c[1] + c[2], ...>>, the
\* tuple cut in two halves so that the evaluation does not nest one level per entry
RECURSIVE RunningSums(_)
RunningSums(c) ==
  IF Len(c) <= 1 THEN c
  ELSE LET half == Len(c) \div 2
           left == RunningSums(SubSeq(c, 1, half))
           right == RunningSums(SubSeq(c, half + 1, Len(c)))
       IN left \o [i \in 1..Len(right) |-> right[i] + left[half]]

\* for the column pair of `right`: how many times the two inner loops have
\* written (and advanced i) after each of their 2 * size steps
FreeThrough(func, size, right) ==
  RunningSums([n \in 1..(2 * size) |->
                 LET c == VisitedCell(size, right, n - 1)
                 IN IF func[c.y][c.x] THEN 0 ELSE 1])

\* blocks_ after drawCodewords
drawCodewords(blocks, func, size, data) ==
  LET rights == RightColumns(size)
      free == [k \in 1..Len(rights) |-> FreeThrough(func, size, rights[k])]
      \* i when the outer loop has finished each column pair
      after == RunningSums([k \in 1..Len(rights) |-> free[k][2 * size]])
      \* the index into rights of the pair that visits column x
      pairOf == [x \in 0..(size - 1) |->
                   IF \E k \in 1..Len(rights) : x \in {rights[k], rights[k] - 1}
                   THEN CHOOSE k \in 1..Len(rights) : x \in {rights[k], rights[k] - 1}
                   ELSE 0]
  IN IF ~(Evaluated(free) /\ Evaluated(after) /\ Evaluated(pairOf)) THEN blocks
     ELSE
     [y \in 0..(size - 1) |-> [x \in 0..(size - 1) |->
        IF pairOf[x] = 0 \/ func[y][x] THEN blocks[y][x]
        ELSE LET k == pairOf[x]
                 right == rights[k]
                 up == ((right + 1) \div 2) % 2 = 0
                 vert == IF up THEN size - 1 - y ELSE y
                 n == 2 * vert + (right - x)
                 i == (IF k = 1 THEN 0 ELSE after[k - 1])
                      + (IF n = 0 THEN 0 ELSE free[k][n])
             IN IF i < Len(data) * 8
                THEN BitSet(data[(i \div 8) + 1], 7 - (i % 8))
                ELSE blocks[y][x]]]

\* the switch of QRCode::mask
MaskSwap(mask, x, y) ==
  CASE mask = 0 -> (x + y) % 2 = 0
    [] mask = 1 -> y % 2 = 0
    [] mask = 2 -> x % 3 = 0
    [] mask = 3 -> (x + y) % 3 = 0
    [] mask = 4 -> ((x \div 3) + (y \div 2)) % 2 = 0
    [] mask = 5 -> ((x * y) % 2) + ((x * y) % 3) = 0
    [] mask = 6 -> (((x * y) % 2) + ((x * y) % 3)) % 2 = 0
    [] mask = 7 -> (((x + y) % 2) + ((x * y) % 3)) % 2 = 0

\* the first statement of QRCode::mask: throw std::logic_error("Invalid mask.")
MaskThrows(mask) == mask < 0 \/ mask > 7

\* the loops of QRCode::mask without the test of funcBlock_
ApplyMaskEverywhere(blocks, func, size, mask) ==
  [y \in 0..(size - 1) |-> [x \in 0..(size - 1) |-> blocks[y][x] # MaskSwap(mask, x, y)]]

\* blocks_ after the loops of QRCode::mask
ApplyMask(blocks, func, size, mask) ==
  [y \in 0..(size - 1) |-> [x \in 0..(size - 1) |->
     blocks[y][x] # (MaskSwap(mask, x, y) /\ ~func[y][x])]]

-----------------------------------------------------------------------------
(* The constructor QRCode::QRCode(text, err, msk) *)

\* the text of n characters that repeats seed
Repeat(seed, n) == [i \in 1..n |-> seed[((i - 1) % Len(seed)) + 1]]

\* the state on entry to the constructor body: the member initialisers have run
\* (plain_text_(text), correctionLevel_(err), rsLog_(256), rsExp_(256))
Entry(t, e, m) ==
  /\ pc = "clampMask"
  /\ text = t
  /\ err = e
  /\ passed = m
  /\ msk = m
  /\ mask_ = Unassigned
  /\ kEncoding_ = NoEncoding
  /\ version_ = Unassigned
  /\ correctionLevel_ = e
  /\ size_ = Unassigned
  /\ blocks_ = << >>
  /\ funcBlock_ = << >>
  /\ data_ = << >>
  /\ rsLog_ = [i \in 0..255 |-> 0]
  /\ rsExp_ = [i \in 0..255 |-> 0]
  /\ error = ""
  /\ call = << >>

\* an exception (a fault, when what is undefined behaviour) leaves the constructor
Leave(how, what) ==
  /\ pc' = how
  /\ error' = what

\* an argument outside [0, 7] brought to the nearest end of the range
ClampedMaskToRange(m) == IF m < 0 THEN 0 ELSE IF m > 7 THEN 7 ELSE m

\* the value of msk after the if statement of lines 47-49
ClampedMask(m) == IF m < 0 \/ m > 7 THEN 0 ELSE m

\* lines 47-50
ClampMask ==
  /\ pc = "clampMask"
  /\ msk' = ClampedMask(msk)
  /\ mask_' = msk'
  /\ pc' = "determineEncoding"
  /\ UNCHANGED <<call, text, err, passed, kEncoding_, version_, correctionLevel_, size_, blocks_,
                 funcBlock_, data_, rsLog_, rsExp_, error>>

\* line 51
DetermineEncoding ==
  /\ pc = "determineEncoding"
  /\ kEncoding_' = determineEncoding(text)
  /\ pc' = "setVersionAndErrorLevel"
  /\ UNCHANGED <<call, text, err, passed, msk, mask_, version_, correctionLevel_, size_, blocks_,
                 funcBlock_, data_, rsLog_, rsExp_, error>>

\* line 52: kEncoding_->getEncodingMode() reads through the pointer; when no
\* branch of determineEncoding assigned it, any record, or a fault, can follow
SetVersionAndErrorLevel ==
  /\ pc = "setVersionAndErrorLevel"
  /\ \E enc \in (IF kEncoding_ = NoEncoding THEN IndeterminateEncodings ELSE {kEncoding_}) :
       IF enc = NoEncoding
       THEN /\ Leave("fault", "kEncoding_ read before it is assigned")
            /\ UNCHANGED <<kEncoding_, version_, correctionLevel_>>
       ELSE \E r \in {setVersionAndErrorLevel(enc, Len(text), err)} :
              /\ kEncoding_' = enc
              /\ IF r.error # ""
                 THEN /\ Leave("thrown", r.error)
                      /\ UNCHANGED <<version_, correctionLevel_>>
                 ELSE /\ version_' = r.version
                      /\ correctionLevel_' = r.level
                      /\ pc' = "allocate"
                      /\ UNCHANGED error
  /\ UNCHANGED <<call, text, err, passed, msk, mask_, size_, blocks_, funcBlock_, data_, rsLog_, rsExp_>>

\* a symbol one module wider on every side
SymbolSizeWider(version) == (4 * version) + 19

\* the right-hand side of line 53
SymbolSize(version) == (4 * version) + 17

\* lines 53-55
Allocate ==
  /\ pc = "allocate"
  /\ \E size \in {SymbolSize(version_)} :
       /\ size_' = size
       /\ blocks_' = [y \in 0..(size - 1) |-> [x \in 0..(size - 1) |-> FALSE]]
       /\ funcBlock_' = [y \in 0..(size - 1) |-> [x \in 0..(size - 1) |-> FALSE]]
  /\ pc' = "drawPatterns"
  /\ UNCHANGED <<call, text, err, passed, msk, mask_, kEncoding_, version_, correctionLevel_, data_,
                 rsLog_, rsExp_, error>>

\* line 56
DrawPatterns ==
  /\ pc = "drawPatterns"
  /\ \E r \in {drawPatterns(blocks_, funcBlock_, size_, version_, correctionLevel_, mask_)} :
       IF r.error # ""
       THEN /\ Leave("thrown", r.error)
            /\ UNCHANGED <<blocks_, funcBlock_>>
       ELSE /\ blocks_' = r.blocks
            /\ funcBlock_' = r.func
            /\ pc' = "encodeText"
            /\ UNCHANGED error
  /\ UNCHANGED <<call, text, err, passed, msk, mask_, kEncoding_, version_, correctionLevel_, size_,
                 data_, rsLog_, rsExp_>>

\* line 57
EncodeText ==
  /\ pc = "encodeText"
  /\ \E what \in {encodeTextError(text, kEncoding_, version_, correctionLevel_)} :
       IF what # ""
       THEN /\ Leave("thrown", what)
            /\ UNCHANGED data_
       ELSE /\ data_' = encodeText(text, kEncoding_, version_, correctionLevel_)
            /\ pc' = "addEDCInterleave"
            /\ UNCHANGED error
  /\ UNCHANGED <<call, text, err, passed, msk, mask_, kEncoding_, version_, correctionLevel_, size_,
                 blocks_, funcBlock_, rsLog_, rsExp_>>

\* line 58
AddEDCInterleave ==
  /\ pc = "addEDCInterleave"
  /\ \E r \in {addEDCInterleave(rsLog_, rsExp_, version_, correctionLevel_, data_)} :
       /\ rsLog_' = r.log
       /\ rsExp_' = r.exp
       /\ IF r.error # ""
          THEN /\ Leave(r.how, r.error)
               /\ UNCHANGED data_
          ELSE /\ data_' = r.data
               /\ pc' = "drawCodewords"
               /\ UNCHANGED error
  /\ UNCHANGED <<call, text, err, passed, msk, mask_, kEncoding_, version_, correctionLevel_, size_,
                 blocks_, funcBlock_>>

\* line 59
DrawCodewords ==
  /\ pc = "drawCodewords"
  /\ blocks_' = drawCodewords(blocks_, funcBlock_, size_, data_)
  /\ pc' = "mask"
  /\ UNCHANGED <<call, text, err, passed, msk, mask_, kEncoding_, version_, correctionLevel_, size_,
                 funcBlock_, data_, rsLog_, rsExp_, error>>

\* line 60: mask(msk), with the local msk
Mask ==
  /\ pc = "mask"
  /\ IF MaskThrows(msk)
     THEN /\ Leave("thrown", "Invalid mask.")
          /\ UNCHANGED blocks_
     ELSE /\ blocks_' = ApplyMask(blocks_, funcBlock_, size_, msk)
          /\ pc' = "done"
          /\ UNCHANGED error
  /\ UNCHANGED <<call, text, err, passed, msk, mask_, kEncoding_, version_, correctionLevel_, size_,
                 funcBlock_, data_, rsLog_, rsExp_>>

Next ==
  \/ ClampMask
  \/ DetermineEncoding
  \/ SetVersionAndErrorLevel
  \/ Allocate
  \/ DrawPatterns
  \/ EncodeText
  \/ AddEDCInterleave
  \/ DrawCodewords
  \/ Mask

-----------------------------------------------------------------------------
(* Inputs *)

\* one seed per kind of text: digits; the alphabet of Alphanumeric; printable
\* ASCII; characters outside [0x20, 0x7E]
Seeds ==
  { <<48>>, <<57, 48, 49>>,
    <<65>>, <<58, 48>>, <<32, 90, 37>>,
    <<97>>, <<126, 33>>, <<48, 97>>,
    <<31>>, <<127>>, <<-1>>, <<48, 9>>, <<65, -128>> }

\* the mask arguments: every mask, and arguments outside [0,7] (main passes 9)
Masks == {-1, 0, 1, 2, 3, 4, 5, 6, 7, 8, 9}

\* one text per class that setVersionAndErrorLevel can be called with, of the
\* largest digits the class has, and the record determineEncoding gives it
ClassSeeds == << <<57>>, <<90, 58>>, <<97, 126>> >>
ClassEncoding == <<kNumeric_, kAlpha_, kByte_>>

\* The constructor under every floor and mask argument: for the short texts of
\* every seed, and for the text of every class that is as long as the capacity
\* of version 1 at the floor (and up to MaxSlack longer).
Init ==
  \E e \in ErrCor, m \in Masks :
    \E t \in {Repeat(seed, n) : seed \in Seeds, n \in 0..MaxSmallLen}
            \cup {Repeat(ClassSeeds[c], getCapacity(ClassEncoding[c], 1, e) + d) :
                    c \in 1..3, d \in 0..MaxSlack} :
      Entry(t, e, m)

Spec == Init /\ [][Next]_vars

\* The constructor for every version: for version v a text of one class, as
\* long as the capacity of v at one level (or up to MaxShort shorter), with that
\* level as the floor; class, level and mask argument go round with v.
InitVersions ==
  \E v \in 1..MaxVersion, d \in 0..MaxShort :
    LET c == (v % 3) + 1
        e == v % 4
    IN Entry(Repeat(ClassSeeds[c], getCapacity(ClassEncoding[c], v, e) - d),
             e, (v % 11) - 1)

SpecVersions == InitVersions /\ [][Next]_vars

\* The constructor up to line 52, for the texts of every class at every
\* capacity of the class (and up to MaxSlack longer), under every floor.
InitSelection ==
  \E c \in 1..3, v \in 1..MaxVersion, l \in ErrCor, d \in 0..MaxSlack, e \in ErrCor :
    Entry(Repeat(ClassSeeds[c], getCapacity(ClassEncoding[c], v, l) + d), e, 9)

Selection ==
  \/ ClampMask
  \/ DetermineEncoding
  \/ SetVersionAndErrorLevel

SpecSelection == InitSelection /\ [][Selection]_vars

-----------------------------------------------------------------------------
(* reedSolomonPolyDiv called on its own *)

\* the coefficients the polynomials are built from
Coefficients == {0, 1, 2, 255}

\* the polynomials of 1..n coefficients, and of 0..n coefficients
Polynomials(n) == UNION {[1..k -> Coefficients] : k \in 1..n}
Remainders(n) == UNION {[1..k -> Coefficients] : k \in 0..n}

\* x * y in GF(256) with the polynomial 0x11D, by shift and add
RECURSIVE FieldProduct(_, _)
FieldProduct(x, y) ==
  IF y = 0 THEN 0
  ELSE BitXor(IF y % 2 = 1 THEN x ELSE 0,
              FieldProduct(IF x < 128 THEN 2 * x ELSE BitXor(2 * x - 256, 29), y \div 2))

\* r with zeros in front, n coefficients in all
PadLeft(r, n) == [i \in 1..n |-> IF i <= n - Len(r) THEN 0 ELSE r[i - (n - Len(r))]]

\* the sum of two polynomials: the coefficients of equal power added in GF(256)
PolySum(a, b) ==
  LET n == Max(Len(a), Len(b))
  IN [i \in 1..n |-> BitXor(PadLeft(a, n)[i], PadLeft(b, n)[i])]

\* the coefficient of place k of p * g: the sum of p[i] * g[k + 1 - i] over i..Len(p)
RECURSIVE ProductCoefficient(_, _, _, _)
ProductCoefficient(p, g, k, i) ==
  IF i > Len(p) THEN 0
  ELSE BitXor(IF k + 1 - i \in 1..Len(g) THEN FieldProduct(p[i], g[k + 1 - i]) ELSE 0,
              ProductCoefficient(p, g, k, i + 1))

PolyProduct(p, g) == [k \in 1..(Len(p) + Len(g) - 1) |-> ProductCoefficient(p, g, k, 1)]

\* An object whose tables are not yet filled, and a call of reedSolomonPolyDiv
\* on dividend = p * g + r and divisor = g, for every p and g of up to
\* MaxPolyLen coefficients, the first of g not 0, and every r shorter than g.
InitRemainder ==
  /\ \E p \in Polynomials(MaxPolyLen), g \in {q \in Polynomials(MaxPolyLen) : q[1] # 0} :
       \E r \in Remainders(Len(g) - 1) :
         call = [p |-> p, r |-> r, dividend |-> PolySum(PolyProduct(p, g), r),
                 divisor |-> g, remainder |-> << >>]
  /\ pc = "rsGenerateLogExp"
  /\ text = << >> /\ err = kLow /\ passed = 0 /\ msk = 0
  /\ mask_ = Unassigned /\ kEncoding_ = NoEncoding /\ version_ = Unassigned
  /\ correctionLevel_ = kLow /\ size_ = Unassigned
  /\ blocks_ = << >> /\ funcBlock_ = << >> /\ data_ = << >>
  /\ rsLog_ = [i \in 0..255 |-> 0]
  /\ rsExp_ = [i \in 0..255 |-> 0]
  /\ error = ""

\* rsGenerateLogExp() fills the tables
RsGenerateLogExp ==
  /\ pc = "rsGenerateLogExp"
  /\ \E t \in {rsGenerateLogExp(rsLog_, rsExp_)} :
       /\ rsLog_' = t.log
       /\ rsExp_' = t.exp
  /\ pc' = "reedSolomonPolyDiv"
  /\ UNCHANGED <<call, text, err, passed, msk, mask_, kEncoding_, version_, correctionLevel_,
                 size_, blocks_, funcBlock_, data_, error>>

\* reedSolomonPolyDiv(dividend, divisor) runs and returns
ReedSolomonPolyDiv ==
  /\ pc = "reedSolomonPolyDiv"
  /\ call' = [call EXCEPT !.remainder =
                reedSolomonPolyDiv([log |-> rsLog_, exp |-> rsExp_], call.dividend, call.divisor)]
  /\ pc' = "returned"
  /\ UNCHANGED <<text, err, passed, msk, mask_, kEncoding_, version_, correctionLevel_,
                 size_, blocks_, funcBlock_, data_, rsLog_, rsExp_, error>>

Remainder == RsGenerateLogExp \/ ReedSolomonPolyDiv

SpecRemainder == InitRemainder /\ [][Remainder]_vars

-----------------------------------------------------------------------------
(* Properties *)

\* the classes of characters, as the specification words them
DigitCodes == 48..57
AlphabetCodes == DigitCodes \cup (65..90) \cup {32, 36, 37, 42, 43, 45, 46, 47, 58}
PrintableCodes == 32..126

AllIn(t, codes) == \A i \in 1..Len(t) : t[i] \in codes

\* the mode code of the first class, in the order Numeric, Alphanumeric, Byte,
\* that the text t satisfies; 0 when it satisfies none
FirstClass(t) ==
  IF AllIn(t, DigitCodes) THEN 1
  ELSE IF AllIn(t, AlphabetCodes) THEN 2
  ELSE IF AllIn(t, PrintableCodes) THEN 4
  ELSE 0

\* the constructor has left line 52 behind, and goes on
Selected == pc \in {"allocate", "drawPatterns", "encodeText", "addEDCInterleave",
                    "drawCodewords", "mask", "done"}

\* the text of this construction fits version v at level l
Fits(v, l) == getCapacity(kEncoding_, v, l) >= Len(text)

\* some version of 1..40 admits the text at some level from the floor up
SomeFits == \E v \in 1..MaxVersion, l \in err..kHigh : Fits(v, l)

\* C1: for a text of a class and any floor, setVersionAndErrorLevel leaves the
\* smallest version of 1..40 that has a level between the floor and High whose
\* capacity is at least the length of the text, and the highest such level of
\* that version; when no version and level fit, the constructor throws and no
\* symbol is built.
C1_SmallestVersionHighestLevel ==
  /\ pc = "allocate" =>
       /\ version_ \in 1..MaxVersion
       /\ correctionLevel_ \in err..kHigh
       /\ Fits(version_, correctionLevel_)
       /\ \A v \in 1..(version_ - 1), l \in err..kHigh : ~Fits(v, l)
       /\ \A l \in (correctionLevel_ + 1)..kHigh : ~Fits(version_, l)
  /\ (pc = "thrown" /\ FirstClass(text) # 0) =>
       /\ ~SomeFits
       /\ error = "String too long!"
       /\ version_ = Unassigned /\ blocks_ = << >>
  /\ (pc \in {"allocate", "thrown"} /\ FirstClass(text) # 0) =>
       (SomeFits <=> pc = "allocate")

\* a version above 1 is chosen at a level above the floor
C1_Witness ==
  /\ pc = "allocate" /\ FirstClass(text) # 0
  /\ version_ > 1 /\ correctionLevel_ > err

\* C2: determineEncoding leaves Numeric (1) for a text of digits only (the
\* empty text too), else Alphanumeric (2) for a text of the 45 characters, else
\* Byte (4) for a text within [0x20, 0x7E]; it never leaves Kanji or ECI; and
\* the code of that first class is what getEncoding() returns from then on.
C2_FirstClassInOrder ==
  /\ pc = "setVersionAndErrorLevel" =>
       /\ kEncoding_.mode \notin {kKanji_.mode, kEci_.mode}
       /\ FirstClass(text) = 1 => kEncoding_ = kNumeric_
       /\ FirstClass(text) = 2 => kEncoding_ = kAlpha_
       /\ FirstClass(text) = 4 => kEncoding_ = kByte_
  /\ (Selected /\ FirstClass(text) # 0) => kEncoding_.mode = FirstClass(text)

\* a text with a digit in it is Alphanumeric, and is built as such
C2_Witness ==
  /\ pc = "done" /\ kEncoding_ = kAlpha_
  /\ \E i \in 1..Len(text) : text[i] \in DigitCodes

\* C3: a text with a character outside [0x20, 0x7E] is refused where it is
\* classified: the constructor throws there, and never reaches the selection
\* of the version with no encoding chosen.
C3_RefusedAtClassification ==
  ~AllIn(text, PrintableCodes) =>
    /\ pc \in {"clampMask", "determineEncoding", "thrown"}
    /\ pc = "thrown" => version_ = Unassigned

\* the text is of a class, and some version and level from the floor up have
\* the capacity for it
FittingText ==
  \E c \in {FirstClass(text)} \ {0} :
    \E enc \in {e \in {kNumeric_, kAlpha_, kByte_} : e.mode = c} :
      \E v \in 1..MaxVersion, l \in err..kHigh : getCapacity(enc, v, l) >= Len(text)

\* C4: for a text of a class and any floor, when some version and level from
\* the floor up have the capacity for the text, no step of the constructor
\* throws or faults: the constructor is at one of its statements, or at its end.
C4_FittingTextIsBuilt ==
  FittingText =>
    pc \in {"clampMask", "determineEncoding", "setVersionAndErrorLevel", "allocate",
            "drawPatterns", "encodeText", "addEDCInterleave", "drawCodewords",
            "mask", "done"}

\* a text as long as the capacity of the last version is built
C4_Witness ==
  /\ pc = "done" /\ version_ = MaxVersion
  /\ Len(text) = getCapacity(kEncoding_, version_, correctionLevel_)

\* the mask index the specification makes of the argument m
EffectiveMask(m) == IF m \in 0..7 THEN m ELSE 0

\* M_m(x, y), as the specification tabulates it
MaskPattern(m, x, y) ==
  CASE m = 0 -> (x + y) % 2 = 0
    [] m = 1 -> y % 2 = 0
    [] m = 2 -> x % 3 = 0
    [] m = 3 -> (x + y) % 3 = 0
    [] m = 4 -> ((x \div 3) + (y \div 2)) % 2 = 0
    [] m = 5 -> ((x * y) % 2) + ((x * y) % 3) = 0
    [] m = 6 -> (((x * y) % 2) + ((x * y) % 3)) % 2 = 0
    [] m = 7 -> (((x + y) % 2) + ((x * y) % 3)) % 2 = 0

\* the mask index read back from the format bits of the grid: bits 10, 11 and
\* 12 of the format word are the modules (4, 8), (3, 8) and (2, 8), and the
\* word was XOR-ed with 0x5412, which has bits 10 and 12 set
FormatMask(blocks) ==
  (IF blocks[8][4] THEN 0 ELSE 1) + (IF blocks[8][3] THEN 2 ELSE 0)
    + (IF blocks[8][2] THEN 0 ELSE 4)

\* the grid after a mask step with index m on the grid blocks, reserved cells
\* func left alone
Masked(blocks, func, m) ==
  [y \in DOMAIN blocks |-> [x \in DOMAIN blocks[y] |->
     IF func[y][x] THEN blocks[y][x] ELSE blocks[y][x] # MaskPattern(m, x, y)]]

\* C5: the mask index in effect is the argument when it lies in [0, 7] and 0
\* otherwise: getMask() returns it, the format bits of the grid hold it, the
\* mask step XORs its pattern onto the data, and the mask step never throws,
\* whatever the argument.
C5_EffectiveMask ==
  [][ /\ pc' # "clampMask" => mask_' = EffectiveMask(passed') /\ msk' = mask_'
      /\ pc' \in {"encodeText", "addEDCInterleave", "drawCodewords", "mask", "done"} =>
           FormatMask(blocks_') = EffectiveMask(passed')
      /\ pc = "mask" =>
           /\ pc' = "done"
           /\ blocks_' = Masked(blocks_, funcBlock_, EffectiveMask(passed))
    ]_vars

\* a symbol is built with mask 0 from an argument above 7
C5_Witness == pc = "done" /\ passed > 7 /\ mask_ = 0 /\ FormatMask(blocks_) = 0

\* C6: the mask step, for each index 0..7, leaves every reserved module as it
\* was, XORs every other module once with M_m(x, y), and leaves the
\* reservation mask as it was.
C6_MaskSparesReserved ==
  [][ (pc = "mask" /\ pc' = "done") =>
        /\ funcBlock_' = funcBlock_
        /\ DOMAIN blocks_' = DOMAIN blocks_
        /\ \A y \in DOMAIN blocks_ :
             /\ DOMAIN blocks_'[y] = DOMAIN blocks_[y]
             /\ \A x \in DOMAIN blocks_[y] :
                  blocks_'[y][x] = IF funcBlock_[y][x]
                                   THEN blocks_[y][x]
                                   ELSE (blocks_[y][x] # MaskPattern(mask_, x, y))
    ]_vars

\* a symbol masked with an index that would invert reserved modules, the
\* finder corner (0, 0) among them, and does invert the data module next to
\* the corner of the symbol (size - 1, size - 1)
C6_Witness ==
  /\ pc = "done" /\ mask_ = 7
  /\ funcBlock_[0][0] /\ MaskPattern(mask_, 0, 0) /\ blocks_[0][0]
  /\ ~funcBlock_[size_ - 1][size_ - 1] /\ MaskPattern(mask_, size_ - 1, size_ - 1)

\* the positions along row 6 and along column 6 that lie outside the finder
\* patterns and their separators
TimingPositions == 8..(size_ - 9)

\* C7: once the function patterns are drawn, and so in the finished symbol, the
\* module at every position of row 6 and of column 6 outside the three finder
\* regions is dark exactly when the position is even, for every version: no
\* later pattern, no codeword and no mask changes it.
C7_TimingAlternates ==
  pc \in {"encodeText", "addEDCInterleave", "drawCodewords", "mask", "done"} =>
    \A p \in TimingPositions :
      /\ blocks_[6][p] = (p % 2 = 0)
      /\ blocks_[p][6] = (p % 2 = 0)

\* a finished symbol with an alignment pattern centred on the timing row
C7_Witness ==
  /\ pc = "done" /\ version_ >= 7
  /\ \E p \in TimingPositions :
       /\ p \in {determineAlignmentPos(version_)[i] : i \in 1..Len(determineAlignmentPos(version_))}
       /\ blocks_[6][p] /\ ~blocks_[6][p - 1] /\ ~blocks_[5][p]

\* C8: the version chosen is monotone in the floor: when the constructor gets
\* past the selection with floor err, then for the same text every floor f up
\* to err is passed too, with a version that is not greater.
C8_MonotoneInFloor ==
  (pc = "allocate" /\ FirstClass(text) # 0) =>
    \A f \in kLow..err :
      /\ setVersionAndErrorLevel(kEncoding_, Len(text), f).error = ""
      /\ setVersionAndErrorLevel(kEncoding_, Len(text), f).version <= version_

\* a text whose version under the floor High is above its version under Low
C8_Witness ==
  /\ pc = "allocate" /\ FirstClass(text) # 0 /\ err = kHigh
  /\ setVersionAndErrorLevel(kEncoding_, Len(text), kLow).version < version_

\* C9: after a construction that succeeds, getSize() is 4 * getVersion() + 17
\* with the version in 1..40, and the module grid and the reservation mask are
\* both square, of size rows of size modules.
C9_SquareOfSize ==
  pc = "done" =>
    /\ version_ \in 1..MaxVersion
    /\ size_ = 4 * version_ + 17
    /\ DOMAIN blocks_ = 0..(size_ - 1)
    /\ DOMAIN funcBlock_ = 0..(size_ - 1)
    /\ \A y \in 0..(size_ - 1) :
         /\ DOMAIN blocks_[y] = 0..(size_ - 1)
         /\ DOMAIN funcBlock_[y] = 0..(size_ - 1)

\* the largest symbol is built: 177 modules a side
C9_Witness ==
  /\ pc = "done" /\ size_ = 177
  /\ Cardinality(DOMAIN blocks_) = 177 /\ Cardinality(DOMAIN funcBlock_[176]) = 177

\* C10: the Numeric capacity of version 1 at level Low is 41 digits: a text of
\* 41 digits with floor Low is built as version 1 at level Low, no higher
\* level of version 1 having room for it, and a text of 42 digits with floor
\* Low is built as version 2.
C10_FortyOneDigits ==
  /\ getCapacity(kNumeric_, 1, kLow) = 41
  /\ \A l \in kMedium..kHigh : getCapacity(kNumeric_, 1, l) < 41
  /\ (AllIn(text, DigitCodes) /\ err = kLow /\ Len(text) \in {41, 42}) =>
       /\ pc \notin {"thrown", "fault"}
       /\ Selected =>
            /\ kEncoding_ = kNumeric_
            /\ Len(text) = 41 => version_ = 1 /\ correctionLevel_ = kLow
            /\ Len(text) = 42 => version_ = 2

\* the symbol of 41 digits is finished: version 1, level Low
C10_Witness ==
  /\ pc = "done" /\ AllIn(text, DigitCodes) /\ Len(text) = 41 /\ err = kLow
  /\ version_ = 1 /\ correctionLevel_ = kLow /\ size_ = 21

\* the text of this construction is of one of the three classes
Classified == FirstClass(text) # 0

\* bit i (0 = first) of a sequence of codewords, most significant bit first
StreamBit(data, i) == IF BitSet(data[(i \div 8) + 1], 7 - (i % 8)) THEN 1 ELSE 0

\* the number written by the len bits of the codewords from bit `from` on
RECURSIVE StreamValue(_, _, _)
StreamValue(data, from, len) ==
  IF len = 0 THEN 0
  ELSE 2 * StreamValue(data, from, len - 1) + StreamBit(data, from + len - 1)

\* floor(totalModules / 8) - B * E, in bits
CapacityBits(v, l) ==
  8 * ((getTotalModules(v) \div 8) - ErrCorrBlocks(l, v) * ECCodewordsPerBlock(l, v))

\* the bits the mode, the count and the n characters of a text of a class take
UsedBits(enc, v, n) ==
  4 + getBitsPerChar(enc, v)
    + (CASE enc.mode = 1 -> 10 * (n \div 3) + <<0, 4, 7>>[(n % 3) + 1]
         [] enc.mode = 2 -> 11 * (n \div 2) + 6 * (n % 2)
         [] OTHER -> 8 * n)

\* C11: encodeText returns exactly floor(totalModules / 8) - B * E codewords.
\* The mode, the count and the data never take more than capacity_bits; the
\* terminator is min(4, capacity_bits - length) zero bits, none when the buffer
\* is full and never a negative number; zero bits follow up to the next byte
\* boundary; from there on the codewords are 0xEC, 0x11, 0xEC, ... up to the
\* capacity.
C11_TerminatorAndFill ==
  (pc = "addEDCInterleave" /\ Classified) =>
    LET capacity == CapacityBits(version_, correctionLevel_)
        used == UsedBits(kEncoding_, version_, Len(text))
        terminator == Min(4, capacity - used)
        padded == ((used + terminator + 7) \div 8) * 8
    IN /\ Len(data_) = capacity \div 8
       /\ used <= capacity
       /\ terminator \in 0..4
       /\ (used = capacity) => (terminator = 0)
       /\ padded <= capacity
       /\ \A i \in used..(padded - 1) : StreamBit(data_, i) = 0
       /\ \A k \in ((padded \div 8) + 1)..Len(data_) :
            data_[k] = IF (k - (padded \div 8)) % 2 = 1 THEN 236 ELSE 17

\* a text that fills the buffer to the last bit, so that no terminator goes in
C11_Witness ==
  /\ pc = "addEDCInterleave" /\ Classified
  /\ UsedBits(kEncoding_, version_, Len(text)) = CapacityBits(version_, correctionLevel_)

\* C12: in the Numeric class every full group of three digits is written as its
\* decimal value in 10 bits, two digits left over as their value in 7 bits and
\* one digit left over as its value in 4 bits: n digits take
\* 10 * floor(n / 3) bits plus 0, 4 or 7.
C12_NumericGroups ==
  (pc = "addEDCInterleave" /\ FirstClass(text) = 1) =>
    LET n == Len(text)
        first == 4 + getBitsPerChar(kEncoding_, version_)
        digit(i) == text[i] - 48
        tail == first + 10 * (n \div 3)
    IN /\ kEncoding_ = kNumeric_
       /\ \A g \in 0..((n \div 3) - 1) :
            StreamValue(data_, first + 10 * g, 10)
              = 100 * digit(3 * g + 1) + 10 * digit(3 * g + 2) + digit(3 * g + 3)
       /\ (n % 3 = 2) => /\ StreamValue(data_, tail, 7) = 10 * digit(n - 1) + digit(n)
                         /\ UsedBits(kEncoding_, version_, n) = tail + 7
       /\ (n % 3 = 1) => /\ StreamValue(data_, tail, 4) = digit(n)
                         /\ UsedBits(kEncoding_, version_, n) = tail + 4
       /\ (n % 3 = 0) => UsedBits(kEncoding_, version_, n) = tail

\* Numeric texts with full groups and two digits left over
C12_Witness ==
  /\ pc = "addEDCInterleave" /\ FirstClass(text) = 1
  /\ Len(text) > 3 /\ Len(text) % 3 = 2

\* B, E, T, short_len and short_count of a version and level
Partition(v, l) ==
  LET B == ErrCorrBlocks(l, v)
      T == getTotalModules(v) \div 8
  IN [B |-> B, E |-> ECCodewordsPerBlock(l, v), T |-> T,
      short_len |-> T \div B, short_count |-> B - (T % B)]

\* the data bytes of block b (from 1) when the first short_count blocks are the
\* short ones, and the data bytes of the blocks before it
PartLen(p, b) == p.short_len - p.E + (IF b <= p.short_count THEN 0 ELSE 1)
PartStart(p, b) == (b - 1) * (p.short_len - p.E) + Max(0, b - 1 - p.short_count)

\* the step of the constructor that runs addEDCInterleave to its end
Interleaves == pc = "addEDCInterleave" /\ pc' = "drawCodewords"

\* C13: addEDCInterleave cuts the data codewords in order, without gap or
\* overlap, into B blocks, the first short_count = B - (T mod B) of
\* short_len - E data bytes and the others of short_len - E + 1, and appends
\* exactly E bytes of error correction to each; for every level and version the
\* lengths are positive and sum to T - B * E.
C13_SequentialSplit ==
  [][Interleaves =>
       \E p \in {Partition(version_, correctionLevel_)} :
         \E sb \in {SplitBlocks([log |-> rsLog_', exp |-> rsExp_'],
                                BlockGeometry(version_, correctionLevel_), data_)} :
           /\ Len(sb) = p.B
           /\ Len(data_) = p.T - p.B * p.E
           /\ PartStart(p, p.B) + PartLen(p, p.B) = Len(data_)
           /\ \A b \in 1..p.B :
                /\ PartLen(p, b) > 0
                /\ SubSeq(sb[b], 1, PartLen(p, b))
                     = SubSeq(data_, PartStart(p, b) + 1, PartStart(p, b) + PartLen(p, b))
                /\ Len(sb[b]) = PartLen(p, b) + (IF b <= p.short_count THEN 1 ELSE 0) + p.E
           /\ \A l \in ErrCor, v \in 1..MaxVersion :
                \E g \in {BlockGeometry(v, l)} :
                  /\ \A i \in 0..(g.num_blocks - 1) :
                       /\ BlockDataLen(g, i) > 0
                       /\ BlockDataLen(g, i) = PartLen(Partition(v, l), i + 1)
                       /\ BlockStart(g, i) = PartStart(Partition(v, l), i + 1)
                  /\ BlockStart(g, g.num_blocks - 1) + BlockDataLen(g, g.num_blocks - 1)
                       = g.total_codewords - g.num_blocks * g.ECC_per_block
  ]_vars

\* a symbol of short and long blocks, several of each, about to be drawn
C13_Witness ==
  /\ pc = "drawCodewords"
  /\ Partition(version_, correctionLevel_).short_count > 1
  /\ Partition(version_, correctionLevel_).B
       > Partition(version_, correctionLevel_).short_count + 1

\* the data codewords are about to be split into blocks
Splitting == pc = "addEDCInterleave" /\ Classified

\* C14 as stated: every block holds short_len - E or short_len - E + 1 data
\* bytes, and the short blocks are the last B - (total_codewords mod B) blocks.
C14_ShortBlocksLast ==
  Splitting =>
    \E p \in {Partition(version_, correctionLevel_)} :
      \E g \in {BlockGeometry(version_, correctionLevel_)} :
        \A i \in 0..(p.B - 1) :
          /\ BlockDataLen(g, i) \in {p.short_len - p.E, p.short_len - p.E + 1}
          /\ (BlockDataLen(g, i) = p.short_len - p.E) <=> (i >= p.B - p.short_count)

\* C14: every block holds short_len - E or short_len - E + 1 data bytes, with
\* short_len = floor(total_codewords / B), and the short blocks are the first
\* B - (total_codewords mod B) blocks of the partition; the data codewords are
\* exactly what the blocks hold.
C14_ShortBlocksFirst ==
  Splitting =>
    \E p \in {Partition(version_, correctionLevel_)} :
      \E g \in {BlockGeometry(version_, correctionLevel_)} :
        /\ \A i \in 0..(p.B - 1) :
             /\ BlockDataLen(g, i) \in {p.short_len - p.E, p.short_len - p.E + 1}
             /\ (BlockDataLen(g, i) = p.short_len - p.E) <=> (i < p.short_count)
        /\ BlockStart(g, p.B - 1) + BlockDataLen(g, p.B - 1) = Len(data_)

\* data codewords about to be split into blocks of both lengths
C14_Witness ==
  /\ Splitting
  /\ (getTotalModules(version_) \div 8) % ErrCorrBlocks(correctionLevel_, version_) # 0

\* where byte i (from 1) of the data of block b, and byte e of its error
\* correction, stand in the stream (from 1): column after column, the blocks in
\* turn, the last byte of the long blocks after every other data byte
DataPlace(p, b, i) ==
  IF i <= p.short_len - p.E THEN (i - 1) * p.B + b
  ELSE (p.short_len - p.E) * p.B + (b - p.short_count)
EccPlace(p, b, e) == (p.T - p.B * p.E) + (e - 1) * p.B + b

\* C15: the interleaved stream has exactly T = floor(totalModules / 8) bytes:
\* every data byte and every byte of error correction of every block exactly
\* once, and no padding byte; column after column, the blocks 0..B-1 in turn,
\* all the data (the extra byte of the long blocks last) before all the error
\* correction.
C15_Interleaved ==
  [][Interleaves =>
       \E p \in {Partition(version_, correctionLevel_)} :
         \E sb \in {SplitBlocks([log |-> rsLog_', exp |-> rsExp_'],
                                BlockGeometry(version_, correctionLevel_), data_)} :
           /\ Len(data_') = p.T
           /\ \A b \in 1..p.B :
                /\ \A i \in 1..PartLen(p, b) :
                     /\ DataPlace(p, b, i) \in 1..(p.T - p.B * p.E)
                     /\ data_'[DataPlace(p, b, i)] = data_[PartStart(p, b) + i]
                /\ \A e \in 1..p.E :
                     /\ EccPlace(p, b, e) \in (p.T - p.B * p.E + 1)..p.T
                     /\ data_'[EccPlace(p, b, e)] = sb[b][Len(sb[b]) - p.E + e]
           /\ Cardinality({DataPlace(p, b, i) : b \in 1..p.B, i \in 1..(p.short_len - p.E)}
                          \cup {DataPlace(p, b, p.short_len - p.E + 1) :
                                  b \in (p.short_count + 1)..p.B}
                          \cup {EccPlace(p, b, e) : b \in 1..p.B, e \in 1..p.E}) = p.T
  ]_vars

\* an interleaved stream of short and long blocks
C15_Witness ==
  /\ pc = "drawCodewords"
  /\ Partition(version_, correctionLevel_).short_count
       \in 1..(Partition(version_, correctionLevel_).B - 1)
  /\ Len(data_) = Partition(version_, correctionLevel_).T

\* C16: for all polynomials p, g and r over GF(256), the first coefficient of g
\* not 0 and r shorter than g, the remainder routine called on p * g + r and g
\* returns len(g) - 1 coefficients: r, with zeros in front.
C16_RemainderOfAnyDivisor ==
  pc = "returned" => call.remainder = PadLeft(call.r, Len(call.divisor) - 1)

\* C17: in a construction the field divide is called only by the remainder
\* routine, on a dividend coefficient that is not 0 and the first coefficient of
\* the generator rsGeneratePoly builds for the E of the symbol; the generator
\* has E + 1 coefficients and the first is 1, so the divisor is never 0 and
\* what reedSolomonDiv returns, exp[(log x + log y) mod 255], is the quotient
\* x / y of the field for every call made.
C17_DivisorIsOne ==
  pc = "drawCodewords" =>
    \E t \in {[log |-> rsLog_, exp |-> rsExp_]} :
      \E generator \in {rsGeneratePoly(t, ECCodewordsPerBlock(correctionLevel_, version_))} :
        /\ Len(generator) = ECCodewordsPerBlock(correctionLevel_, version_) + 1
        /\ generator[1] = 1
        /\ \A x \in 1..255 :
             FieldProduct(reedSolomonDiv(t, x, generator[1]), generator[1]) = x

\* the blocks of a symbol have been divided by the generator of 30 roots
C17_Witness ==
  /\ pc = "drawCodewords"
  /\ ECCodewordsPerBlock(correctionLevel_, version_) = 30
  /\ ErrCorrBlocks(correctionLevel_, version_) > 1
  /\ rsExp_[0] = 1 /\ rsLog_[1] = 0

\* the tracks with the step 2 * ceil(distance / (2 * intervals)), the quotient
\* taken exactly
AlignmentTracks(v) ==
  LET intervals == (v \div 7) + 1
      distance == 4 * v + 4
      step == 2 * ((distance + 2 * intervals - 1) \div (2 * intervals))
  IN <<6>> \o [i \in 1..intervals |-> distance + 6 - (intervals - 1 - (i - 1)) * step]

\* the function patterns are drawn
Drawn == pc \in {"encodeText", "addEDCInterleave", "drawCodewords", "mask", "done"}

\* C18: for the versions 2..40 determineAlignmentPos returns 6 and
\* distance + 6 - (intervals - 1 - i) * step for i of 0..intervals-1, with
\* intervals = floor(v / 7) + 1, distance = 4 * v + 4 and
\* step = 2 * ceil(distance / (2 * intervals)), the ceiling of the exact
\* quotient; an alignment pattern is drawn at every pair of tracks but the
\* three pairs of the finder corners.
C18_AlignmentTracks ==
  (Drawn /\ version_ >= 2) =>
    \E tracks \in {AlignmentTracks(version_)} :
      /\ determineAlignmentPos(version_) = tracks
      /\ \A i \in 1..Len(tracks), j \in 1..Len(tracks) :
           ~((i = 1 /\ j = 1) \/ (i = 1 /\ j = Len(tracks)) \/ (i = Len(tracks) /\ j = 1)) =>
             \A dx \in -2..2, dy \in -2..2 :
               /\ funcBlock_[tracks[j] + dy][tracks[i] + dx]
               /\ (pc = "encodeText") =>
                    (blocks_[tracks[j] + dy][tracks[i] + dx] = (Max(Abs(dx), Abs(dy)) # 1))

\* a of up to bit + 1 bits reduced modulo x^10 + x^8 + x^5 + x^4 + x^2 + x + 1
\* (0x537), the polynomials over GF(2): long division from bit `bit` down
RECURSIVE BchReduce(_, _)
BchReduce(a, bit) ==
  IF bit < 10 THEN a
  ELSE BchReduce(IF BitSet(a, bit) THEN BitXor(a, 1335 * (2 ^ (bit - 10))) ELSE a, bit - 1)

\* the two bits of a level in the format field: L 1, M 0, Q 3, H 2
FormatLevel(level) ==
  CASE level = kLow -> 1 [] level = kMedium -> 0 [] level = kQuartile -> 3 [] level = kHigh -> 2

\* the 15 bits of the format field
FormatField(level, mask) ==
  LET data == FormatLevel(level) * 8 + mask
  IN BitXor(data * 1024 + BchReduce(data * 1024, 14), 21522)

\* the cell <<x, y>> of bit i in the copy around the top-left finder, and in the
\* copy split between the top-right and the bottom-left finders
FirstCopy(i) ==
  IF i <= 5 THEN <<8, i>>
  ELSE IF i <= 7 THEN <<8, i + 1>>
  ELSE IF i = 8 THEN <<7, 8>>
  ELSE <<14 - i, 8>>
SecondCopy(i, size) == IF i <= 7 THEN <<size - 1 - i, 8>> ELSE <<8, size - 15 + i>>

\* C19: the format field is ((format_bits(level) * 8 + mask) * 1024 + rem) XOR
\* 0x5412, with format_bits L 1, M 0, Q 3, H 2 and rem the remainder of 10 bits
\* (below 1024) of the BCH code of generator 0x537; each of its 15 bits is
\* written to both copies, which are identical; no bit of it goes to row 6 or
\* to column 6, which keep the timing pattern; the cell (8, size - 8) is dark
\* and reserved.
C19_FormatField ==
  Drawn =>
    \E bits \in {FormatField(correctionLevel_, mask_)} :
      /\ BchReduce((FormatLevel(correctionLevel_) * 8 + mask_) * 1024, 14) \in 0..1023
      /\ \A i \in 0..14 :
           \E a \in {FirstCopy(i)}, b \in {SecondCopy(i, size_)} :
             /\ blocks_[a[2]][a[1]] = BitSet(bits, i)
             /\ blocks_[b[2]][b[1]] = BitSet(bits, i)
             /\ funcBlock_[a[2]][a[1]] /\ funcBlock_[b[2]][b[1]]
             /\ a[1] # 6 /\ a[2] # 6 /\ b[1] # 6 /\ b[2] # 6
      /\ blocks_[6][8] /\ blocks_[8][6]
      /\ blocks_[size_ - 8][8] /\ funcBlock_[size_ - 8][8]

\* a finished symbol of level Q under mask 5
C19_Witness ==
  /\ pc = "done" /\ correctionLevel_ = kQuartile /\ mask_ = 5
  /\ blocks_[size_ - 8][8] /\ funcBlock_[8][size_ - 1]

\* The cells in the order of the placement, for a symbol of `size`: the column
\* pairs from (size-1, size-2) down to (1, 0), the pairs below column 6 being
\* (5, 4), (3, 2), (1, 0); the first pair upward from the bottom row, the next
\* downward, and so on in turn; in each row the right cell, then the left one.
ZigZag(size) ==
  [n \in 1..(size * (size - 1)) |->
     LET pair == (n - 1) \div (2 * size)
         within == (n - 1) % (2 * size)
         right == IF size - 1 - 2 * pair > 6 THEN size - 1 - 2 * pair ELSE size - 2 - 2 * pair
         row == within \div 2
     IN [x |-> right - (within % 2),
         y |-> IF pair % 2 = 0 THEN size - 1 - row ELSE row]]

\* the step of the constructor that runs drawCodewords
Places == pc = "drawCodewords" /\ pc' = "mask"

\* C20: the placement visits every cell of every column but column 6 exactly
\* once, in the zig-zag order; a reserved cell is never written; the k-th cell
\* visited that is not reserved (k from 0) gets bit 7 - (k mod 8) of byte
\* floor(k / 8) of the stream while the stream lasts: each such cell gets at most
\* one bit and the bits are taken in order.
C20_ZigZagPlacement ==
  [][Places =>
       \E order \in {ZigZag(size_)} :
         \E rank \in {RunningSums([n \in 1..Len(order) |->
                        IF funcBlock_[order[n].y][order[n].x] THEN 0 ELSE 1])} :
           /\ {order[n] : n \in 1..Len(order)}
                = {[x |-> x, y |-> y] : x \in (0..(size_ - 1)) \ {6}, y \in 0..(size_ - 1)}
           /\ Cardinality({order[n] : n \in 1..Len(order)}) = Len(order)
           /\ \A n \in 1..Len(order) :
                \E c \in {order[n]} :
                  blocks_'[c.y][c.x] =
                    IF funcBlock_[c.y][c.x] \/ rank[n] - 1 >= 8 * Len(data_)
                    THEN blocks_[c.y][c.x]
                    ELSE BitSet(data_[((rank[n] - 1) \div 8) + 1], 7 - ((rank[n] - 1) % 8))
           /\ \A y \in 0..(size_ - 1) : blocks_'[y][6] = blocks_[y][6]
           /\ funcBlock_' = funcBlock_
  ]_vars

\* a symbol with version information whose codewords are placed: the first bit
\* of the stream is in the bottom-right cell
C20_Witness ==
  /\ pc = "mask" /\ version_ >= 7
  /\ ~funcBlock_[size_ - 1][size_ - 1]
  /\ blocks_[size_ - 1][size_ - 1] = BitSet(data_[1], 7)
  /\ blocks_[size_ - 1][size_ - 2] = BitSet(data_[1], 6)

\* the cells of the symbol that no function pattern has reserved
FreeCells ==
  {c \in (0..(size_ - 1)) \X (0..(size_ - 1)) : ~funcBlock_[c[2]][c[1]]}

\* C21: for every version, once the function patterns are drawn (timing,
\* finders and separators, alignment, format, dark module, version), the cells
\* left unreserved are getTotalModules(version) in number; so the placement has
\* a cell for each of the 8 * floor(totalModules / 8) bits of the interleaved
\* stream, and at most 7 unreserved cells get no bit.
C21_FreeCellsAreTotalModules ==
  Drawn =>
    \E free \in {Cardinality(FreeCells)} :
      /\ free = getTotalModules(version_)
      /\ (pc \in {"mask", "done"}) =>
           /\ Len(data_) = getTotalModules(version_) \div 8
           /\ 8 * Len(data_) <= free
           /\ free - 8 * Len(data_) <= 7

\* a finished symbol with version information and 7 cells without a bit
C21_Witness ==
  /\ pc = "done" /\ version_ >= 7
  /\ Cardinality(FreeCells) - 8 * Len(data_) \in 1..7

====
